---- MODULE Spec2Model ----
(***************************************************************************)
(* docQuest: the document ingestion pipeline of utils/pdf_processing.py    *)
(* and the language-model calls of utils/llm_interaction.py, the modules   *)
(* that main.py and main2.py import, and the upload loop and the question  *)
(* handler of these two scripts.                                           *)
(*                                                                         *)
(* Texts are modelled as records [kind, n]: kind is the fixed wording of   *)
(* the text and n the number formatted into it (0 when there is none).     *)
(* Areas are integers and the coverage threshold is given in percent, so   *)
(* text_area / page_area < threshold is text_area * 100 < threshold *      *)
(* page_area.                                                              *)
(***************************************************************************)
EXTENDS Integers, Sequences, FiniteSets, TLC

VARIABLES
    pc,               \* position of process_pdf_pages
    pdf_document,     \* the pages of the opened document
    status,           \* per batch: state of its future
    pos,              \* per batch: pages of the batch already iterated
    previous_summary, \* per batch: the local previous_summary
    batch_data,       \* per batch: the local batch_data
    pages,            \* document_data["pages"]
    collected,        \* batches in the order as_completed yielded them
    logged,           \* batches whose failure was logged by process_pdf_pages
    faulty,           \* pages processed so far on which something failed
    last,             \* the locals of the loop iteration executed last
    system_prompt,    \* the local system_prompt and the calls that generated it
    closed,           \* whether pdf_document.close() was called
    azure_endpoint,   \* the language service: "up", or "down" and answering nothing
    call,             \* a single call of summarize_page / get_image_explanation
    cls,              \* a single call of the page classifier
    part,             \* a single computation of page_batches
    ask,              \* a single call of ask_question
    opened,           \* a single call of process_pdf_pages, as its caller sees it
    script,           \* the application run: main.py or main2.py
    uploaded_files,   \* what the file uploader holds
    documents,        \* st.session_state.documents
    chat_history,     \* st.session_state.chat_history
    futures,          \* main.py: the futures of the upload loop
    notices           \* what the application showed: st.info, st.success, st.error,
                      \* or the exception that ended the script run

call_vars == <<call, cls, part, ask, opened>>

app_vars == <<script, uploaded_files, documents, chat_history, futures, notices>>

vars == <<pc, pdf_document, status, pos, previous_summary, batch_data, pages,
          collected, logged, faulty, last, system_prompt, closed, azure_endpoint, call_vars, app_vars>>

pipeline_vars == <<pc, pdf_document, status, pos, previous_summary, batch_data,
                   pages, collected, logged, faulty, last, system_prompt, closed,
                   azure_endpoint>>

(***************************************************************************)
(* Bounds of the model and constants of the program.                       *)
(***************************************************************************)
MaxPages == 7
MaxFaultyPages == 1
MaxRotation == 1
MaxRetries == 3
MaxDelay == 2
MaxTotal == 12
MaxBatchSize == 6
MaxTurns == 3
MaxFilePages == 2
MaxNotices == 4

batch_size == 5
default_retries == 3
default_initial_delay == 2
default_threshold == 40
persona_timeout == 20
summarize_timeout == 20
explain_timeout == 50

Min(a, b) == IF a < b THEN a ELSE b

RECURSIVE Pow2(_)
Pow2(k) == IF k = 0 THEN 1 ELSE 2 * Pow2(k - 1)

(***************************************************************************)
(* Texts.                                                                  *)
(***************************************************************************)
Txt(k, i) == [kind |-> k, n |-> i]

EmptyText == Txt("", 0)
PageText(page_number) == Txt("text", page_number)
SummaryText(page_number) == Txt("summary", page_number)
SummarizeError(page_number) == Txt("Error: Unable to summarize page", page_number)
PageError == Txt("Error in processing this page", 0)
ExplanationText == Txt("explanation", 0)
ExplainTimeoutError(retries) == Txt("Error: Request timed out after retries", retries)
ExplainNetworkError == Txt("Error: Unable to fetch image explanation", 0)
ExplainMaxRetriesError == Txt("Error: Max retries reached without success", 0)
Persona == Txt("persona", 0)
PersonaError == Txt("Error: Unable to generate system prompt", 0)

(***************************************************************************)
(* What one HTTP request to the language service can end in.  "bad_body"   *)
(* is a 200 answer whose body makes the extraction of the content raise    *)
(* something that is no RequestException (an empty choices list).          *)
(***************************************************************************)
Responses == {"ok", "timeout", "connection_error", "http_error", "bad_body"}
TransportFailures == {"timeout", "connection_error", "http_error"}

\* Mutant: requests.post is called without a timeout, so a request the
\* service never answers never ends.
requests_post_unbounded(timeout) == (Responses \ {"timeout"}) \cup {"no_response"}

\* requests.post(..., timeout=timeout): a request the service does not answer
\* within the timeout ends in requests.exceptions.Timeout.
requests_post(timeout) ==
    IF timeout > 0 THEN Responses ELSE (Responses \ {"timeout"}) \cup {"no_response"}

Returned(v, sl, rq) == [raised |-> FALSE, value |-> v, sleeps |-> sl, requests |-> rq]
Raised(sl, rq) == [raised |-> TRUE, value |-> EmptyText, sleeps |-> sl, requests |-> rq]

(***************************************************************************)
(* utils/llm_interaction.py: the two calls made for a page.  A call is a   *)
(* function of what the service answers to each request it makes; it gives *)
(* the value returned (or that it raised), the time.sleep calls it made    *)
(* and the number of requests it issued.                                   *)
(***************************************************************************)
\* Lines 66-134: one request; a RequestException gives the error text, and
\* an answer without choices makes the indexing raise.
generate_system_prompt(response) ==
    CASE response = "ok" -> Returned(Persona, <<>>, 1)
      [] response \in TransportFailures -> Returned(PersonaError, <<>>, 1)
      [] OTHER -> Raised(<<>>, 1)

\* Mutant: summarize_page without its except clause.
summarize_page_unguarded(response, page_number) ==
    IF response = "ok"
    THEN Returned(SummaryText(page_number), <<>>, 1)
    ELSE Raised(<<>>, 1)

summarize_page(response, page_number) ==
    CASE response = "ok" -> Returned(SummaryText(page_number), <<>>, 1)
      [] response \in TransportFailures -> Returned(SummarizeError(page_number), <<>>, 1)
      [] OTHER -> Raised(<<>>, 1)

RECURSIVE explain_attempt(_, _, _, _, _)
explain_attempt(responses, retries, initial_delay, attempt, sleeps) ==
    IF attempt >= retries
    THEN Returned(ExplainMaxRetriesError, sleeps, attempt)
    ELSE LET response == responses[attempt + 1] IN
         CASE response = "ok" -> Returned(ExplanationText, sleeps, attempt + 1)
           [] response = "timeout" ->
                IF attempt < retries - 1
                THEN explain_attempt(responses, retries, initial_delay, attempt + 1,
                                     Append(sleeps, initial_delay * Pow2(attempt)))
                ELSE Returned(ExplainTimeoutError(retries), sleeps, attempt + 1)
           [] response \in {"connection_error", "http_error"} ->
                Returned(ExplainNetworkError, sleeps, attempt + 1)
           [] OTHER -> Raised(sleeps, attempt + 1)

\* Mutant: every RequestException is retried like a timeout.
RECURSIVE explain_attempt_retry_all(_, _, _, _, _)
explain_attempt_retry_all(responses, retries, initial_delay, attempt, sleeps) ==
    IF attempt >= retries
    THEN Returned(ExplainMaxRetriesError, sleeps, attempt)
    ELSE LET response == responses[attempt + 1] IN
         CASE response = "ok" -> Returned(ExplanationText, sleeps, attempt + 1)
           [] response \in TransportFailures ->
                IF attempt < retries - 1
                THEN explain_attempt_retry_all(responses, retries, initial_delay,
                         attempt + 1, Append(sleeps, initial_delay * Pow2(attempt)))
                ELSE Returned(ExplainTimeoutError(retries), sleeps, attempt + 1)
           [] OTHER -> Raised(sleeps, attempt + 1)

get_image_explanation_retry_all(responses, retries, initial_delay) ==
    explain_attempt_retry_all(responses, retries, initial_delay, 0, <<>>)

\* Mutant: every timeout is slept on, the last one too, and the loop runs out.
RECURSIVE explain_attempt_sleep_always(_, _, _, _, _)
explain_attempt_sleep_always(responses, retries, initial_delay, attempt, sleeps) ==
    IF attempt >= retries
    THEN Returned(ExplainMaxRetriesError, sleeps, attempt)
    ELSE LET response == responses[attempt + 1] IN
         CASE response = "ok" -> Returned(ExplanationText, sleeps, attempt + 1)
           [] response = "timeout" ->
                explain_attempt_sleep_always(responses, retries, initial_delay, attempt + 1,
                                             Append(sleeps, initial_delay * Pow2(attempt)))
           [] response \in {"connection_error", "http_error"} ->
                Returned(ExplainNetworkError, sleeps, attempt + 1)
           [] OTHER -> Raised(sleeps, attempt + 1)

get_image_explanation_sleep_always(responses, retries, initial_delay) ==
    explain_attempt_sleep_always(responses, retries, initial_delay, 0, <<>>)

get_image_explanation(responses, retries, initial_delay) ==
    explain_attempt(responses, retries, initial_delay, 0, <<>>)

(***************************************************************************)
(* utils/pdf_processing.py: the page classifier.  A page is what the PDF   *)
(* library reports of it: the number of raster images, whether it has      *)
(* vector drawings, the summed area of its text blocks, the area of its    *)
(* rectangle, and whether one of the accessors (get_images, get_text,      *)
(* get_drawings, get_pixmap, tobytes) raises.                              *)
(***************************************************************************)
None == "None"
Base64Image == "base64_image"

\* Mutant: <= in place of <.
text_coverage_not_above(page, ocr_text_threshold) ==
    IF page.page_area > 0
    THEN page.text_area * 100 <= ocr_text_threshold * page.page_area
    ELSE 0 <= ocr_text_threshold

text_coverage_below(page, ocr_text_threshold) ==
    IF page.page_area > 0
    THEN page.text_area * 100 < ocr_text_threshold * page.page_area
    ELSE 0 < ocr_text_threshold

\* Mutant: a page without text area is an image page, whatever it holds.
detect_blank_page_as_image(page, ocr_text_threshold) ==
    IF page.broken THEN None
    ELSE IF page.text_area = 0 THEN Base64Image
    ELSE IF (page.images > 0 \/ page.drawings)
            /\ page.text_area * 100 < ocr_text_threshold * page.page_area
         THEN Base64Image
         ELSE None

\* Mutant: only a page that has some text can be an image page.
detect_requiring_text(page, ocr_text_threshold) ==
    IF page.broken THEN None
    ELSE IF (page.images > 0 \/ page.drawings)
            /\ page.text_area > 0
            /\ page.text_area * 100 < ocr_text_threshold * page.page_area
         THEN Base64Image
         ELSE None

detect_ocr_images_and_vector_graphics_in_pdf(page, ocr_text_threshold) ==
    IF page.broken
    THEN None
    ELSE IF (page.images > 0 \/ page.drawings)
            /\ text_coverage_below(page, ocr_text_threshold)
         THEN Base64Image
         ELSE None

(***************************************************************************)
(* utils/pdf_processing.py: batches, page records and the merge.           *)
(***************************************************************************)
Range(lo, hi) == [k \in 1..(hi - lo) |-> lo + k - 1]

\* Mutant: the last, shorter batch is left out.
page_batches_full_only(total, size) ==
    [j \in 1..(total \div size) |-> Range((j - 1) * size, (j - 1) * size + size)]

\* Mutant: the end of a range is clipped one page early.
page_batches_clipped(total, size) ==
    [j \in 1..((total + size - 1) \div size) |->
        Range((j - 1) * size, Min((j - 1) * size + size, total - 1))]

page_batches(total, size) ==
    [j \in 1..((total + size - 1) \div size) |->
        Range((j - 1) * size, Min((j - 1) * size + size, total))]

total_pages == Len(pdf_document)

Batches == page_batches(total_pages, batch_size)

PageRecord(page_number, full_text, text_summary, image_analysis) ==
    [page_number |-> page_number, full_text |-> full_text,
     text_summary |-> text_summary, image_analysis |-> image_analysis]

Placeholder(page_number) == PageRecord(page_number, EmptyText, PageError, <<>>)

IsPlaceholder(record) == record.text_summary = PageError

ImageAnalysis(page_number, explanation) ==
    [page_number |-> page_number, explanation |-> explanation]

\* list.sort(key=page_number): a stable sort, here by insertion.
RECURSIVE insert_by_page_number(_, _)
insert_by_page_number(sorted, record) ==
    IF sorted = <<>> THEN <<record>>
    ELSE IF sorted[Len(sorted)].page_number <= record.page_number
         THEN Append(sorted, record)
         ELSE Append(insert_by_page_number(SubSeq(sorted, 1, Len(sorted) - 1), record),
                     sorted[Len(sorted)])

\* Mutant: the pages are returned as merged.
sort_forgotten(records) == records

\* Mutant: one pass of exchanges of neighbours, which leaves some merges unsorted.
RECURSIVE sort_single_pass(_)
sort_single_pass(records) ==
    IF Len(records) <= 1 THEN records
    ELSE IF records[1].page_number > records[2].page_number
         THEN <<records[2]>> \o sort_single_pass(<<records[1]>> \o Tail(Tail(records)))
         ELSE <<records[1]>> \o sort_single_pass(Tail(records))

RECURSIVE sort_by_page_number(_)
sort_by_page_number(records) ==
    IF records = <<>> THEN <<>>
    ELSE insert_by_page_number(
             sort_by_page_number(SubSeq(records, 1, Len(records) - 1)),
             records[Len(records)])

(***************************************************************************)
(* The inputs of one page iteration inside the pipeline.                   *)
(***************************************************************************)
Page(images, drawings, text_area, page_area, broken) ==
    [images |-> images, drawings |-> drawings, text_area |-> text_area,
     page_area |-> page_area, broken |-> broken]

NoPage == Page(0, FALSE, 0, 0, FALSE)

\* The kinds of page of the model's documents: text only, an image over little
\* text, an image beside much text, a drawing over little text.
PageKinds ==
    <<Page(0, FALSE, 5, 100, FALSE), Page(1, FALSE, 5, 100, FALSE),
      Page(1, FALSE, 40, 100, FALSE), Page(0, TRUE, 5, 100, FALSE)>>

\* The documents of the model: up to MaxPages pages, the kinds in rotation.
Documents ==
    {[i \in 1..n |-> PageKinds[((i + k) % Len(PageKinds)) + 1]] :
        n \in 0..MaxPages, k \in 0..MaxRotation}

\* What the service answers to the requests of one get_image_explanation call.
ExplainResponses ==
    {<<"ok", "ok", "ok">>, <<"timeout", "ok", "ok">>, <<"timeout", "timeout", "timeout">>,
     <<"connection_error", "ok", "ok">>, <<"timeout", "http_error", "ok">>,
     <<"bad_body", "ok", "ok">>}

\* The locals of one iteration of process_page_batch: the page number, the
\* page indices read from the document, the previous_summary and the
\* system_prompt passed on, the
\* answer to the summarization request, the page as the classifier saw it,
\* image_data, the record appended, and where an exception was raised.
NoStep ==
    [batch |-> 0, page_number |-> 0, loaded |-> {}, prev |-> EmptyText,
     system_prompt |-> EmptyText, response |-> "none",
     page |-> NoPage, image_data |-> None, error |-> "none",
     record |-> [page_number |-> 0, full_text |-> EmptyText,
                 text_summary |-> EmptyText, image_analysis |-> <<>>]]

\* A page iteration on which something failed (they are bounded by MaxFaultyPages).
Faulty(step) ==
    \/ step.error # "none"
    \/ step.response # "ok"
    \/ \E i \in DOMAIN step.record.image_analysis :
           step.record.image_analysis[i].explanation # ExplanationText

MayFail == faulty < MaxFaultyPages

(***************************************************************************)
(* process_pdf_pages, utils/pdf_processing.py.                             *)
(***************************************************************************)
\* What a request of the run can end in: while the service is up, anything
\* as long as pages may still fail; when it is down, it answers nothing.
answers(timeout) ==
    IF azure_endpoint = "down"
    THEN requests_post(timeout) \cap {"timeout", "no_response"}
    ELSE {r \in requests_post(timeout) : r # "ok" => MayFail}

\* Mutant: only the task of the first batch is handed the system prompt.
batch_system_prompt_first_only(b) == IF b = 1 THEN system_prompt.value ELSE EmptyText

\* Line 112: the system_prompt handed to the task of a batch.
batch_system_prompt(b) == system_prompt.value

\* Lines 85-112: the document is opened, the system prompt is generated from
\* its text and one task per batch is submitted.  An exception of the
\* generation is raised again by the handler of lines 127-129.
submit ==
    /\ pc = "start"
    /\ \E response \in answers(persona_timeout) :
          LET p == generate_system_prompt(response) IN
          /\ faulty' = IF response = "ok" THEN faulty ELSE faulty + 1
          /\ IF response = "no_response"
             THEN /\ pc' = "blocked"
                  /\ UNCHANGED <<status, system_prompt>>
             ELSE /\ system_prompt' = [value |-> p.value,
                                       calls |-> system_prompt.calls + 1]
                  /\ IF p.raised
                     THEN pc' = "raised" /\ status' = status
                     ELSE /\ pc' = "running"
                          /\ status' = [b \in DOMAIN Batches |-> "running"]
    /\ UNCHANGED <<pdf_document, pos, previous_summary, batch_data, pages, collected,
                   logged, last, closed, azure_endpoint, call_vars, app_vars>>

\* Lines 87-96 and 127-129: reading, converting or opening the file raises.
open_raises ==
    /\ pc = "start"
    /\ pc' = "raised"
    /\ UNCHANGED <<pdf_document, status, pos, previous_summary, batch_data, pages,
                   collected, logged, faulty, last, system_prompt, closed,
                   azure_endpoint, call_vars, app_vars>>

\* Mutant: the loop is left at the first page that raises.
iterate_until_error(b, record, summary, step) ==
    LET done == [step EXCEPT !.record = record] IN
    /\ Faulty(done) => MayFail
    /\ faulty' = IF Faulty(done) THEN faulty + 1 ELSE faulty
    /\ batch_data' = [batch_data EXCEPT ![b] = Append(@, record)]
    /\ previous_summary' = [previous_summary EXCEPT ![b] = summary]
    /\ pos' = [pos EXCEPT ![b] = @ + 1]
    /\ status' = [status EXCEPT ![b] =
                     IF pos[b] + 1 = Len(Batches[b]) \/ IsPlaceholder(record)
                     THEN "done" ELSE @]
    /\ last' = done
    /\ UNCHANGED <<pc, pdf_document, pages, collected, logged, system_prompt, closed,
                   azure_endpoint, call_vars, app_vars>>

\* Mutant: a page that raised starts the chain again from the empty text.
iterate_restarting_chain(b, record, summary, step) ==
    LET done == [step EXCEPT !.record = record] IN
    /\ Faulty(done) => MayFail \/ azure_endpoint = "down"
    /\ faulty' = IF Faulty(done) THEN faulty + 1 ELSE faulty
    /\ batch_data' = [batch_data EXCEPT ![b] = Append(@, record)]
    /\ previous_summary' = [previous_summary EXCEPT ![b] =
                               IF IsPlaceholder(record) THEN EmptyText ELSE summary]
    /\ pos' = [pos EXCEPT ![b] = @ + 1]
    /\ status' = [status EXCEPT ![b] = IF pos[b] + 1 = Len(Batches[b]) THEN "done" ELSE @]
    /\ last' = done
    /\ UNCHANGED <<pc, pdf_document, pages, collected, logged, system_prompt, closed,
                   azure_endpoint, call_vars, app_vars>>

\* Mutant: the chain carries on what was recorded for the page.
iterate_chaining_records(b, record, summary, step) ==
    LET done == [step EXCEPT !.record = record] IN
    /\ Faulty(done) => MayFail
    /\ faulty' = IF Faulty(done) THEN faulty + 1 ELSE faulty
    /\ batch_data' = [batch_data EXCEPT ![b] = Append(@, record)]
    /\ previous_summary' = [previous_summary EXCEPT ![b] = record.text_summary]
    /\ pos' = [pos EXCEPT ![b] = @ + 1]
    /\ status' = [status EXCEPT ![b] = IF pos[b] + 1 = Len(Batches[b]) THEN "done" ELSE @]
    /\ last' = done
    /\ UNCHANGED <<pc, pdf_document, pages, collected, logged, system_prompt, closed,
                   azure_endpoint, call_vars, app_vars>>

\* The end of one iteration of the loop of process_page_batch: the record is
\* appended, and the task returns batch_data after its last page.
iterate(b, record, summary, step) ==
    LET done == [step EXCEPT !.record = record] IN
    /\ Faulty(done) => MayFail \/ azure_endpoint = "down"
    /\ faulty' = IF Faulty(done) THEN faulty + 1 ELSE faulty
    /\ batch_data' = [batch_data EXCEPT ![b] = Append(@, record)]
    /\ previous_summary' = [previous_summary EXCEPT ![b] = summary]
    /\ pos' = [pos EXCEPT ![b] = @ + 1]
    /\ status' = [status EXCEPT ![b] = IF pos[b] + 1 = Len(Batches[b]) THEN "done" ELSE @]
    /\ last' = done
    /\ UNCHANGED <<pc, pdf_document, pages, collected, logged, system_prompt, closed,
                   azure_endpoint, call_vars, app_vars>>

\* A request of the task of batch b is never answered and has no timeout.
request_blocks(b) ==
    /\ faulty' = faulty + 1
    /\ status' = [status EXCEPT ![b] = "blocked"]
    /\ UNCHANGED <<pc, pdf_document, pos, previous_summary, batch_data, pages,
                   collected, logged, last, system_prompt, closed,
                   azure_endpoint, call_vars, app_vars>>

\* Lines 56-78: the page was summarized; it is classified, explained when the
\* classifier returned an image, and recorded.
classify_and_explain(b, n, summary, step) ==
    \E broken \in {br \in BOOLEAN : br => MayFail} :
       LET page == [pdf_document[n] EXCEPT !.broken = broken]
           image_data == detect_ocr_images_and_vector_graphics_in_pdf(
                             page, default_threshold)
           classified == [step EXCEPT !.page = page, !.image_data = image_data,
                                      !.error = IF page.broken THEN "classify" ELSE "none"]
       IN IF image_data = None
          THEN iterate(b, PageRecord(n, PageText(n), summary, <<>>), summary, classified)
          ELSE \/ /\ "no_response" \in answers(explain_timeout)
                  /\ request_blocks(b)
               \/ \E responses \in {r \in ExplainResponses :
                                        \A i \in DOMAIN r :
                                            r[i] \in answers(explain_timeout)} :
                    LET e == get_image_explanation(responses, default_retries,
                                                   default_initial_delay)
                    IN IF e.raised
                       THEN iterate(b, Placeholder(n), summary,
                                    [classified EXCEPT !.error = "explain"])
                       ELSE iterate(b, PageRecord(n, PageText(n), summary,
                                                  <<ImageAnalysis(n, e.value)>>),
                                    summary, classified)

\* Mutant: the classifier is handed the document and goes through all its pages.
loaded_pages_whole_document(page_number) == {i - 1 : i \in 1..total_pages}

\* Lines 48 and 57: the iteration loads the page of its index and hands that
\* page to the classifier; nothing else is read from the document.
loaded_pages(page_number) == {page_number - 1}

\* Lines 46-78: one iteration of the loop of process_page_batch.
process_page_batch(b) ==
    /\ pc = "running"
    /\ status[b] = "running"
    /\ pos[b] < Len(Batches[b])
    /\ LET n == Batches[b][pos[b] + 1] + 1
           start == [NoStep EXCEPT !.batch = b, !.page_number = n,
                                   !.loaded = loaded_pages(n),
                                   !.prev = previous_summary[b],
                                   !.system_prompt = batch_system_prompt(b)]
       IN \/ \* load_page or get_text raises
             /\ MayFail
             /\ iterate(b, Placeholder(n), previous_summary[b],
                        [start EXCEPT !.error = "extract"])
          \/ \E response \in answers(summarize_timeout) :
               LET s == summarize_page(response, n)
                   summarized == [start EXCEPT !.response = response]
               IN IF response = "no_response"
                  THEN request_blocks(b)
                  ELSE IF s.raised
                  THEN iterate(b, Placeholder(n), previous_summary[b],
                               [summarized EXCEPT !.error = "summarize"])
                  ELSE classify_and_explain(b, n, s.value, summarized)

\* Lines 71-78: an exception leaves process_page_batch (one raised inside the
\* handler of the loop), so the future of the batch holds an exception.
process_page_batch_raises(b) ==
    /\ pc = "running"
    /\ status[b] = "running"
    /\ MayFail
    /\ faulty' = faulty + 1
    /\ status' = [status EXCEPT ![b] = "raised"]
    /\ UNCHANGED <<pc, pdf_document, pos, previous_summary, batch_data, pages, collected,
                   logged, last, system_prompt, closed,
                   azure_endpoint, call_vars, app_vars>>

\* Mutant: the document is closed inside the loop, after the first future.
as_completed_closing(b) ==
    /\ pc = "running"
    /\ status[b] \in {"done", "raised"}
    /\ \A i \in DOMAIN collected : collected[i] # b
    /\ IF status[b] = "done"
       THEN pages' = pages \o batch_data[b] /\ logged' = logged
       ELSE pages' = pages /\ logged' = logged \cup {b}
    /\ collected' = Append(collected, b)
    /\ closed' = TRUE
    /\ UNCHANGED <<pc, pdf_document, status, pos, previous_summary, batch_data,
                   faulty, last, system_prompt, azure_endpoint, call_vars, app_vars>>

\* Lines 113-118: as_completed yields a finished future; its result is merged,
\* or the exception it holds is logged.
as_completed(b) ==
    /\ pc = "running"
    /\ status[b] \in {"done", "raised"}
    /\ \A i \in DOMAIN collected : collected[i] # b
    /\ IF status[b] = "done"
       THEN pages' = pages \o batch_data[b] /\ logged' = logged
       ELSE pages' = pages /\ logged' = logged \cup {b}
    /\ collected' = Append(collected, b)
    /\ UNCHANGED <<pc, pdf_document, status, pos, previous_summary, batch_data,
                   faulty, last, system_prompt, closed,
                   azure_endpoint, call_vars, app_vars>>

\* Mutant: the record is returned as soon as one future was yielded.
return_document_early ==
    /\ pc = "running"
    /\ Len(collected) >= Min(1, Len(Batches))
    /\ closed' = TRUE
    /\ pages' = sort_by_page_number(pages)
    /\ pc' = "returned"
    /\ UNCHANGED <<pdf_document, status, pos, previous_summary, batch_data, collected,
                   logged, faulty, last, system_prompt, azure_endpoint, call_vars, app_vars>>

\* Lines 120-125: every future was yielded; the document is closed, the pages
\* are sorted and the record is returned.
return_document ==
    /\ pc = "running"
    /\ Len(collected) = Len(Batches)
    /\ closed' = TRUE
    /\ pages' = sort_by_page_number(pages)
    /\ pc' = "returned"
    /\ UNCHANGED <<pdf_document, status, pos, previous_summary, batch_data, collected,
                   logged, faulty, last, system_prompt, azure_endpoint, call_vars, app_vars>>

\* process_pdf_pages has ended: it returned the record or raised.
Ended == pc \in {"returned", "raised"}

(***************************************************************************)
(* One call of summarize_page or of get_image_explanation, given what the  *)
(* service answers to the successive requests.                             *)
(***************************************************************************)
NoOut == Returned(EmptyText, <<>>, 0)

NoCall == [fn |-> "none", responses |-> <<>>, retries |-> 0, initial_delay |-> 0,
           page_number |-> 0, out |-> NoOut]

call_summarize_page ==
    /\ call.fn = "none"
    /\ call' = [call EXCEPT !.fn = "summarize_page",
                            !.out = summarize_page(call.responses[1], call.page_number)]
    /\ UNCHANGED <<pipeline_vars, cls, part, ask, opened, app_vars>>

call_get_image_explanation ==
    /\ call.fn = "none"
    /\ call' = [call EXCEPT !.fn = "get_image_explanation",
                            !.out = get_image_explanation(call.responses, call.retries,
                                                          call.initial_delay)]
    /\ UNCHANGED <<pipeline_vars, cls, part, ask, opened, app_vars>>

(***************************************************************************)
(* One call of the page classifier.                                        *)
(***************************************************************************)
NoCls == [page |-> NoPage, threshold |-> 0, called |-> FALSE, image_data |-> None]

ClassifierPages ==
    {Page(i, d, t, a, br) : i \in 0..2, d \in BOOLEAN, t \in {0, 5, 10, 40, 100},
                            a \in {0, 100}, br \in BOOLEAN}

Thresholds == {0, 10, default_threshold, 100}

classify ==
    /\ ~cls.called
    /\ cls' = [cls EXCEPT !.called = TRUE,
                          !.image_data = detect_ocr_images_and_vector_graphics_in_pdf(
                                             cls.page, cls.threshold)]
    /\ UNCHANGED <<pipeline_vars, call, part, ask, opened, app_vars>>

(***************************************************************************)
(* utils/llm_interaction.py: ask_question.  The values the caller's        *)
(* collection can hold are tagged with their Python type: the dict that    *)
(* process_pdf_pages builds, the tuple it returns, and None.  The          *)
(* collection is a dict, here the sequence of its items in insertion       *)
(* order.                                                                  *)
(***************************************************************************)
DocumentData(file_name, records) ==
    [type |-> "dict", document_name |-> file_name, pages |-> records]

TupleOf(document_data, prompt) ==
    [type |-> "tuple", items |-> <<document_data, prompt>>]

NoneValue == [type |-> "NoneType"]

Item(file_name, value) == [name |-> file_name, value |-> value]

NoTextAvailable == Txt("No text available", 0)
NoImageAnalysis == Txt("No image analysis.", 0)
AnswerText == Txt("answer", 0)
NoAnswerProvided == Txt("No answer provided.", 0)

\* Lines 188-190: the lines "Page n: explanation" of a page, or the marker.
image_explanation(page) ==
    IF page.image_analysis # <<>>
    THEN [i \in DOMAIN page.image_analysis |->
             [page_number |-> page.image_analysis[i].page_number,
              text |-> page.image_analysis[i].explanation]]
    ELSE <<[page_number |-> 0, text |-> NoImageAnalysis]>>

\* Mutant: the block of the legacy ask_question, without the full text.
page_block_without_full_text(page) ==
    [page_number |-> page.page_number,
     full_text |-> EmptyText,
     summary |-> page.text_summary,
     image_analysis |-> image_explanation(page)]

\* Lines 185-197: the block of one page in combined_content.
page_block(page) ==
    [page_number |-> page.page_number,
     full_text |-> IF "full_text" \in DOMAIN page THEN page.full_text ELSE NoTextAvailable,
     summary |-> page.text_summary,
     image_analysis |-> image_explanation(page)]

Assembled(blocks) == [raised |-> FALSE, error |-> "none", value |-> blocks]
AssemblyRaised(error) == [raised |-> TRUE, error |-> error, value |-> <<>>]

\* Mutant: the content is headed by the first document, so there has to be one.
RECURSIVE combined_content_headed(_)
combined_content_headed(items) ==
    IF items = <<>> THEN AssemblyRaised("IndexError")
    ELSE IF Head(items).value.type # "dict" THEN AssemblyRaised("TypeError")
    ELSE IF Tail(items) = <<>>
         THEN Assembled([i \in DOMAIN Head(items).value.pages |->
                            page_block(Head(items).value.pages[i])])
         ELSE LET rest == combined_content_headed(Tail(items)) IN
              IF rest.raised THEN rest
              ELSE Assembled([i \in DOMAIN Head(items).value.pages |->
                                 page_block(Head(items).value.pages[i])] \o rest.value)

\* Lines 180-197: combined_content, document after document and page after
\* page; doc_data["pages"] raises TypeError on a value that is no dict.
RECURSIVE combined_content(_)
combined_content(items) ==
    IF items = <<>> THEN Assembled(<<>>)
    ELSE IF Head(items).value.type # "dict" THEN AssemblyRaised("TypeError")
    ELSE LET rest == combined_content(Tail(items)) IN
         IF rest.raised THEN rest
         ELSE Assembled([i \in DOMAIN Head(items).value.pages |->
                            page_block(Head(items).value.pages[i])] \o rest.value)

ChatTurn(question, answer) == [question |-> question, answer |-> answer]

HistoryLines(chat) ==
    <<[speaker |-> "User", text |-> chat.question],
      [speaker |-> "Assistant", text |-> chat.answer]>>

\* Mutant: only the latest two turns are serialized.
RECURSIVE conversation_history_latest(_)
conversation_history_latest(history) ==
    IF history = <<>> THEN <<>>
    ELSE IF Len(history) > 2 THEN conversation_history_latest(Tail(history))
    ELSE HistoryLines(Head(history)) \o conversation_history_latest(Tail(history))

\* Lines 200-202: "User: question\nAssistant: answer\n" of every turn, joined.
RECURSIVE conversation_history(_)
conversation_history(history) ==
    IF history = <<>> THEN <<>>
    ELSE HistoryLines(Head(history)) \o conversation_history(Tail(history))

NoPrompt == [content |-> <<>>, history |-> <<>>, question |-> EmptyText]

\* What the answer request can end in: the outcomes of a request, and a 200
\* answer whose body has no choices, message or content key.
AskResponses == Responses \cup {"no_content"}

AskOut(raised, error, value, requests, prompt) ==
    [raised |-> raised, error |-> error, value |-> value, requests |-> requests,
     sleeps |-> <<>>, prompt |-> prompt]

\* Mutant: a failed request is answered by a sentinel text, as summarize_page does.
ask_question_degrading(items, question, history, response) ==
    LET content == combined_content(items)
        prompt == [content |-> content.value, history |-> conversation_history(history),
                   question |-> question]
    IN IF content.raised THEN AskOut(TRUE, content.error, EmptyText, 0, NoPrompt)
       ELSE CASE response = "ok" -> AskOut(FALSE, "none", AnswerText, 1, prompt)
              [] response = "no_content" -> AskOut(FALSE, "none", NoAnswerProvided, 1, prompt)
              [] response \in TransportFailures ->
                   AskOut(FALSE, "none", Txt("Error: Unable to answer the question", 0), 1,
                          prompt)
              [] OTHER -> AskOut(TRUE, "IndexError", EmptyText, 1, prompt)

\* Lines 178-248: the context is assembled, one request is made, and its
\* content is returned; a RequestException is raised again as an Exception.
ask_question(items, question, history, response) ==
    LET content == combined_content(items)
        prompt == [content |-> content.value, history |-> conversation_history(history),
                   question |-> question]
    IN IF content.raised THEN AskOut(TRUE, content.error, EmptyText, 0, NoPrompt)
       ELSE CASE response = "ok" -> AskOut(FALSE, "none", AnswerText, 1, prompt)
              [] response = "no_content" -> AskOut(FALSE, "none", NoAnswerProvided, 1, prompt)
              [] response \in TransportFailures ->
                   AskOut(TRUE, "Exception", EmptyText, 1, prompt)
              [] OTHER -> AskOut(TRUE, "IndexError", EmptyText, 1, prompt)

(***************************************************************************)
(* One call of ask_question.                                               *)
(***************************************************************************)
NoAsk == [called |-> FALSE, documents |-> <<>>, question |-> EmptyText,
          chat_history |-> <<>>, response |-> "none",
          out |-> AskOut(FALSE, "none", EmptyText, 0, NoPrompt)]

\* The pages process_pdf_pages returns for a document of n pages of text
\* when nothing fails.
TextPages(n) == [i \in 1..n |-> PageRecord(i, PageText(i), SummaryText(i), <<>>)]

\* A page with an explained image.
ImagePages ==
    <<PageRecord(1, PageText(1), SummaryText(1), <<ImageAnalysis(1, ExplanationText)>>)>>

\* A page as the legacy process_page_batch records it, without full_text.
SummaryPages ==
    <<[page_number |-> 1, text_summary |-> SummaryText(1), image_analysis |-> <<>>]>>

AskDocuments ==
    {<<>>,
     <<Item("a.pdf", DocumentData("a.pdf", TextPages(2))),
       Item("b.pdf", DocumentData("b.pdf", ImagePages)),
       Item("c.pdf", DocumentData("c.pdf", SummaryPages))>>,
     <<Item("a.pdf", DocumentData("a.pdf", TextPages(2)))>>,
     <<Item("a.pdf", DocumentData("a.pdf", <<>>))>>,
     <<Item("a.pdf", DocumentData("a.pdf", TextPages(1))),
       Item("b.pdf", DocumentData("b.pdf", ImagePages))>>,
     <<Item("a.pdf", TupleOf(DocumentData("a.pdf", TextPages(1)), Txt("persona", 0)))>>,
     <<Item("a.pdf", NoneValue)>>}

Turns == {ChatTurn(Txt("question", i), Txt("answer", i)) : i \in 1..2}

RECURSIVE SeqsUpTo(_, _)
SeqsUpTo(S, n) ==
    IF n = 0 THEN {<<>>}
    ELSE LET shorter == SeqsUpTo(S, n - 1) IN
         shorter \cup {Append(q, x) : q \in {r \in shorter : Len(r) = n - 1}, x \in S}

Histories == SeqsUpTo(Turns, MaxTurns)

call_ask_question ==
    /\ ~ask.called
    /\ ask' = [ask EXCEPT !.called = TRUE,
                          !.out = ask_question(ask.documents, ask.question,
                                               ask.chat_history, ask.response)]
    /\ UNCHANGED <<pipeline_vars, call, cls, part, opened, app_vars>>

(***************************************************************************)
(* process_pdf_pages as its caller sees it.  An uploaded file is its name  *)
(* (stem and extension), what the conversion service answers when it is    *)
(* sent there, and what the PDF library makes of the bytes that reach it:  *)
(* a document of some pages, or malformed bytes.                           *)
(***************************************************************************)
UploadedFile(stem, extension, service, wellformed, page_count) ==
    [stem |-> stem, extension |-> extension, service |-> service,
     wellformed |-> wellformed, page_count |-> page_count]

FileName(uploaded_file) == <<uploaded_file.stem, uploaded_file.extension>>

\* The extensions that have a MIME type, of those the model uses.
MIME_TYPES == {"docx", "xlsx", "pptx"}

NoError == [type |-> "none", text |-> EmptyText, cause |-> EmptyText]
Error(type, text, cause) == [type |-> type, text |-> text, cause |-> cause]

UnsupportedFileType == Txt("Unsupported file type", 0)
ConversionFailed == Txt("File conversion failed with status code", 500)
ConnectionFailed == Txt("connection to the conversion service failed", 0)
OpenFailed == Txt("Failed to open stream", 0)
UnableToProcess == Txt("Unable to process the file", 0)
UnexpectedKeyword == Txt("got an unexpected keyword argument", 0)

Result(value) == [raised |-> FALSE, error |-> NoError, value |-> value]
Raise(error) == [raised |-> TRUE, error |-> error, value |-> NoneValue]

\* convert_office_to_pdf: the PDF bytes, or the exception it raises.
convert_office_to_pdf(office_file) ==
    IF office_file.extension \notin MIME_TYPES
    THEN Raise(Error("ValueError", UnsupportedFileType, EmptyText))
    ELSE CASE office_file.service = "200" -> Result(NoneValue)
           [] office_file.service = "connection_error" ->
                Raise(Error("ConnectionError", ConnectionFailed, EmptyText))
           [] OTHER -> Raise(Error("Exception", ConversionFailed, EmptyText))

\* Lines 87-96: the stream is read or converted, and opened.
open_stream(uploaded_file) ==
    LET converted == IF uploaded_file.extension = "pdf" THEN Result(NoneValue)
                     ELSE convert_office_to_pdf(uploaded_file)
    IN IF converted.raised THEN converted
       ELSE IF ~uploaded_file.wellformed
            THEN Raise(Error("FileDataError", OpenFailed, EmptyText))
            ELSE Result(NoneValue)

\* Mutant: the ValueError names the file and leaves out what went wrong.
process_pdf_pages_without_cause(uploaded_file, kwargs) ==
    IF kwargs # {} THEN Raise(Error("TypeError", UnexpectedKeyword, EmptyText))
    ELSE LET stream == open_stream(uploaded_file) IN
         IF stream.raised
         THEN Raise(Error("ValueError", UnableToProcess, EmptyText))
         ELSE Result(TupleOf(DocumentData(FileName(uploaded_file),
                                          TextPages(uploaded_file.page_count)),
                             Persona))

\* Lines 83-129: process_pdf_pages(uploaded_file) called with the keyword
\* arguments kwargs.  It takes none, so any makes the call raise TypeError.
\* Every exception of its body is raised again as a ValueError whose message
\* holds the file name and the text of the exception.  Otherwise it returns
\* the pair of document_data and system_prompt; the pages are here those of
\* a run of the pipeline in which no page fails.
process_pdf_pages(uploaded_file, kwargs) ==
    IF kwargs # {} THEN Raise(Error("TypeError", UnexpectedKeyword, EmptyText))
    ELSE LET stream == open_stream(uploaded_file) IN
         IF stream.raised
         THEN Raise(Error("ValueError", UnableToProcess, stream.error.text))
         ELSE Result(TupleOf(DocumentData(FileName(uploaded_file),
                                          TextPages(uploaded_file.page_count)),
                             Persona))

(***************************************************************************)
(* One call of process_pdf_pages.                                          *)
(***************************************************************************)
NoFile == UploadedFile("", "pdf", "200", TRUE, 0)

NoOpened == [called |-> FALSE, file |-> NoFile, kwargs |-> {}, out |-> Result(NoneValue)]

Extensions == {"pdf", "docx", "pptx", "txt"}
Services == {"200", "500", "connection_error"}

Files ==
    {UploadedFile(stem, extension, service, wellformed, page_count) :
        stem \in {"a", "b"}, extension \in Extensions, service \in Services,
        wellformed \in BOOLEAN, page_count \in 0..MaxFilePages}

call_process_pdf_pages ==
    /\ ~opened.called
    /\ opened' = [opened EXCEPT !.called = TRUE,
                                !.out = process_pdf_pages(opened.file, opened.kwargs)]
    /\ UNCHANGED <<pipeline_vars, call, cls, part, ask, app_vars>>

(***************************************************************************)
(* One computation of the page batches of a document of `total` pages with *)
(* batches of `size` pages (line 108, for any batch size).                 *)
(***************************************************************************)
NoPart == [total |-> 0, size |-> 1, called |-> FALSE, batches |-> <<>>]

partition ==
    /\ ~part.called
    /\ part' = [part EXCEPT !.called = TRUE,
                            !.batches = page_batches(part.total, part.size)]
    /\ UNCHANGED <<pipeline_vars, call, cls, ask, opened, app_vars>>

(***************************************************************************)
(* main.py and main2.py: the upload loop and handle_question.  A notice is *)
(* what the application shows: st.info, st.success, st.error, or the       *)
(* exception that ended the script run because nothing caught it.          *)
(***************************************************************************)
Notice(kind, name, error) == [kind |-> kind, name |-> name, error |-> error]

Names(items) == {items[i].name : i \in DOMAIN items}

\* documents[name] = value on a dict kept in insertion order.
setitem(items, name, value) ==
    IF name \in Names(items)
    THEN [i \in DOMAIN items |-> IF items[i].name = name THEN Item(name, value)
                                 ELSE items[i]]
    ELSE Append(items, Item(name, value))

Future(uploaded_file, state, out) == [file |-> uploaded_file, state |-> state, out |-> out]

\* The files of the uploader that are not yet in the collection.
RECURSIVE new_files(_, _)
new_files(files, items) ==
    IF files = <<>> THEN <<>>
    ELSE IF FileName(Head(files)) \notin Names(items)
         THEN <<Head(files)>> \o new_files(Tail(files), items)
         ELSE new_files(Tail(files), items)

RECURSIVE already_uploaded(_, _)
already_uploaded(files, items) ==
    IF files = <<>> THEN <<>>
    ELSE IF FileName(Head(files)) \in Names(items)
         THEN <<Notice("info", FileName(Head(files)), NoError)>>
              \o already_uploaded(Tail(files), items)
         ELSE already_uploaded(Tail(files), items)

\* main.py 115-133: a run of the script with files in the uploader: the files
\* already in the collection are named, the others are submitted, each as
\* process_pdf_pages(uploaded_file, first_file=(index == 0)).
upload_main ==
    /\ script = "main"
    /\ uploaded_files # <<>>
    /\ \A i \in DOMAIN futures : futures[i].state = "collected"
    /\ Len(notices) < MaxNotices
    /\ futures' = [i \in DOMAIN new_files(uploaded_files, documents) |->
                      Future(new_files(uploaded_files, documents)[i], "pending",
                             Result(NoneValue))]
    /\ notices' = notices \o already_uploaded(uploaded_files, documents)
    /\ UNCHANGED <<pipeline_vars, call_vars, script, uploaded_files, documents,
                   chat_history>>

\* main.py 131: a worker of the executor runs the call of a future.
task_main(i) ==
    /\ script = "main"
    /\ futures[i].state = "pending"
    /\ futures' = [futures EXCEPT ![i] =
                      Future(@.file, "done", process_pdf_pages(@.file, {"first_file"}))]
    /\ UNCHANGED <<pipeline_vars, call_vars, script, uploaded_files, documents,
                   chat_history, notices>>

\* main.py 135-144: as_completed yields a finished future; its result is
\* stored under the name of the file, or its exception is shown.
collect_main(i) ==
    /\ script = "main"
    /\ futures[i].state = "done"
    /\ futures' = [futures EXCEPT ![i].state = "collected"]
    /\ LET name == FileName(futures[i].file)
           out == futures[i].out
       IN IF out.raised
          THEN /\ notices' = Append(notices, Notice("error", name, out.error))
               /\ documents' = documents
          ELSE /\ documents' = setitem(documents, name, out.value)
               /\ notices' = Append(notices, Notice("success", name, NoError))
    /\ UNCHANGED <<pipeline_vars, call_vars, script, uploaded_files, chat_history>>

\* main2.py 44-53: one iteration of the loop over the uploaded files, on the
\* first file that is not in the collection: None is stored under its name,
\* then what process_pdf_pages(uploaded_file) returns; an exception of the
\* call is caught by nothing and ends the run of the script.
upload_main2 ==
    /\ script = "main2"
    /\ new_files(uploaded_files, documents) # <<>>
    /\ LET uploaded_file == Head(new_files(uploaded_files, documents))
           name == FileName(uploaded_file)
           out == process_pdf_pages(uploaded_file, {})
       IN IF out.raised
          THEN /\ documents' = setitem(documents, name, NoneValue)
               /\ notices' = Append(notices, Notice("exception", name, out.error))
          ELSE /\ documents' = setitem(setitem(documents, name, NoneValue), name, out.value)
               /\ notices' = Append(notices, Notice("success", name, NoError))
    /\ UNCHANGED <<pipeline_vars, call_vars, script, uploaded_files, chat_history,
                   futures>>

Prompt == Txt("question", 0)

MissingArgument == Txt("missing 1 required positional argument: 'chat_history'", 0)
UnableToAnswer == Txt("Unable to answer the question", 0)

\* main.py 26-49 and 164-167, main2.py 14-19 and 56-87: a question is asked
\* once the collection is not empty.  main.py calls ask_question(documents,
\* prompt, chat_history), appends the turn, and shows any exception; main2.py
\* calls ask_question(documents, prompt), which lacks an argument, so the
\* call raises before any request is made.  The variable ask keeps the call:
\* what it was passed, what the service would answer, and how it ended.
handle_question ==
    /\ documents # <<>>
    /\ \A i \in DOMAIN futures : futures[i].state = "collected"
    /\ Len(notices) < MaxNotices
    /\ Len(chat_history) < MaxTurns
    /\ \E response \in AskResponses :
          LET out == IF script = "main"
                     THEN ask_question(documents, Prompt, chat_history, response)
                     ELSE AskOut(TRUE, "TypeError", EmptyText, 0, NoPrompt)
          IN /\ ask' = [called |-> TRUE, documents |-> documents, question |-> Prompt,
                        chat_history |-> IF script = "main" THEN chat_history ELSE <<>>,
                        response |-> response, out |-> out]
             /\ IF script = "main"
                THEN IF out.raised
                     THEN /\ notices' = Append(notices,
                                               Notice("error", <<"question", "">>,
                                                      Error(out.error, UnableToAnswer,
                                                            EmptyText)))
                          /\ chat_history' = chat_history
                     ELSE /\ chat_history' = Append(chat_history,
                                                    ChatTurn(Prompt, out.value))
                          /\ notices' = notices
                ELSE /\ notices' = Append(notices,
                                          Notice("exception", <<"question", "">>,
                                                 Error("TypeError", MissingArgument,
                                                       EmptyText)))
                     /\ chat_history' = chat_history
    /\ UNCHANGED <<pipeline_vars, call, cls, part, opened, script, uploaded_files,
                   documents, futures>>

(***************************************************************************)
(* Specifications.                                                         *)
(***************************************************************************)
\* No system prompt was generated yet.
NoSystemPrompt == [value |-> EmptyText, calls |-> 0]

\* Nothing was called and no application runs.
NoCalls ==
    /\ call = NoCall
    /\ cls = NoCls
    /\ part = NoPart
    /\ ask = NoAsk
    /\ opened = NoOpened

NoApp ==
    /\ script = "none"
    /\ uploaded_files = <<>>
    /\ documents = <<>>
    /\ chat_history = <<>>
    /\ futures = <<>>
    /\ notices = <<>>

Idle ==
    /\ pc = "idle"
    /\ pdf_document = <<>>
    /\ status = <<>>
    /\ pos = <<>>
    /\ previous_summary = <<>>
    /\ batch_data = <<>>
    /\ pages = <<>>
    /\ collected = <<>>
    /\ logged = {}
    /\ faulty = 0
    /\ last = NoStep
    /\ system_prompt = NoSystemPrompt
    /\ closed = FALSE
    /\ azure_endpoint = "up"

Init ==
    /\ pc = "start"
    /\ pdf_document \in Documents
    /\ status = [b \in DOMAIN Batches |-> "unsubmitted"]
    /\ pos = [b \in DOMAIN Batches |-> 0]
    /\ previous_summary = [b \in DOMAIN Batches |-> EmptyText]
    /\ batch_data = [b \in DOMAIN Batches |-> <<>>]
    /\ pages = <<>>
    /\ collected = <<>>
    /\ logged = {}
    /\ faulty = 0
    /\ last = NoStep
    /\ system_prompt = NoSystemPrompt
    /\ closed = FALSE
    /\ azure_endpoint = "up"
    /\ NoCalls
    /\ NoApp

Next ==
    \/ submit
    \/ open_raises
    \/ \E b \in DOMAIN Batches : process_page_batch(b)
    \/ \E b \in DOMAIN Batches : as_completed(b)
    \/ return_document

\* The pipeline; every exception of a page is raised inside the loop body.
Spec == Init /\ [][Next]_vars

NextFault ==
    \/ Next
    \/ \E b \in DOMAIN Batches : process_page_batch_raises(b)

\* The pipeline when the future of a batch may hold an exception.
SpecFault == Init /\ [][NextFault]_vars

\* The pipeline on a document of at most two batches, the service up or down.
InitLive ==
    /\ pc = "start"
    /\ pdf_document \in {d \in Documents : Len(d) <= batch_size + 1}
    /\ status = [b \in DOMAIN Batches |-> "unsubmitted"]
    /\ pos = [b \in DOMAIN Batches |-> 0]
    /\ previous_summary = [b \in DOMAIN Batches |-> EmptyText]
    /\ batch_data = [b \in DOMAIN Batches |-> <<>>]
    /\ pages = <<>>
    /\ collected = <<>>
    /\ logged = {}
    /\ faulty = 0
    /\ last = NoStep
    /\ system_prompt = NoSystemPrompt
    /\ closed = FALSE
    /\ azure_endpoint \in {"up", "down"}
    /\ NoCalls
    /\ NoApp

\* Lines 120-125 as a step of the control alone; it is possible exactly where
\* return_document is.
returns ==
    /\ pc = "running"
    /\ Len(collected) = Len(Batches)
    /\ pc' = "returned"
    /\ UNCHANGED <<pdf_document, status, pos, previous_summary, batch_data, pages,
                   collected, logged, faulty, last, system_prompt, closed,
                   azure_endpoint, call_vars, app_vars>>

\* The thread of process_pdf_pages is scheduled, and the executor runs the
\* tasks it was given: when a step of the thread or of some task stays
\* possible, one is taken, and the thread does not stay for ever where it can
\* return.
SpecLive ==
    /\ InitLive
    /\ [][NextFault]_vars
    /\ WF_vars(submit \/ open_raises)
    /\ WF_vars(\E b \in DOMAIN Batches : process_page_batch(b))
    /\ WF_vars(\E b \in DOMAIN Batches : as_completed(b))
    /\ WF_vars(returns)

InitCall ==
    /\ Idle
    /\ NoApp
    /\ cls = NoCls
    /\ part = NoPart
    /\ ask = NoAsk
    /\ opened = NoOpened
    /\ \E responses \in [1..MaxRetries -> Responses], retries \in 0..MaxRetries,
          initial_delay \in 1..MaxDelay, page_number \in 1..2 :
         call = [fn |-> "none", responses |-> responses, retries |-> retries,
                 initial_delay |-> initial_delay, page_number |-> page_number,
                 out |-> NoOut]

NextCall == call_summarize_page \/ call_get_image_explanation

SpecCall == InitCall /\ [][NextCall]_vars

InitClassify ==
    /\ Idle
    /\ NoApp
    /\ call = NoCall
    /\ part = NoPart
    /\ ask = NoAsk
    /\ opened = NoOpened
    /\ \E page \in ClassifierPages, threshold \in Thresholds :
         cls = [page |-> page, threshold |-> threshold, called |-> FALSE,
                image_data |-> None]

NextClassify == classify

SpecClassify == InitClassify /\ [][NextClassify]_vars

InitBatches ==
    /\ Idle
    /\ NoApp
    /\ call = NoCall
    /\ cls = NoCls
    /\ ask = NoAsk
    /\ opened = NoOpened
    /\ \E total \in 0..MaxTotal, size \in 1..MaxBatchSize :
         part = [total |-> total, size |-> size, called |-> FALSE, batches |-> <<>>]

NextBatches == partition

SpecBatches == InitBatches /\ [][NextBatches]_vars

\* What the uploader of each script accepts: main.py PDF and office files,
\* main2.py PDF files only.
Uploadable(s) ==
    {f \in Files : /\ f.extension \in (IF s = "main" THEN {"pdf", "docx"} ELSE {"pdf"})
                   /\ f.extension = "pdf" => f.service = "200"
                   /\ f.page_count \in (IF f.wellformed THEN 1..MaxFilePages ELSE {0})}

InitUpload ==
    /\ Idle
    /\ NoCalls
    /\ script \in {"main", "main2"}
    /\ uploaded_files \in
          {<<f>> : f \in {g \in Uploadable(script) : g.stem = "a"}}
          \cup {<<f, g>> : f \in {h \in Uploadable(script) : h.stem = "a"},
                           g \in {h \in Uploadable(script) : h.stem = "b"}}
    /\ documents = <<>>
    /\ chat_history = <<>>
    /\ futures = <<>>
    /\ notices = <<>>

NextUpload ==
    \/ upload_main
    \/ \E i \in DOMAIN futures : task_main(i)
    \/ \E i \in DOMAIN futures : collect_main(i)
    \/ upload_main2
    \/ handle_question

\* The application: files are uploaded, then questions are asked.
SpecUpload == InitUpload /\ [][NextUpload]_vars

InitOpen ==
    /\ Idle
    /\ NoApp
    /\ call = NoCall
    /\ cls = NoCls
    /\ part = NoPart
    /\ ask = NoAsk
    /\ \E uploaded_file \in Files, kwargs \in {{}, {"first_file"}} :
         opened = [NoOpened EXCEPT !.file = uploaded_file, !.kwargs = kwargs]

NextOpen == call_process_pdf_pages

SpecOpen == InitOpen /\ [][NextOpen]_vars

InitAsk ==
    /\ Idle
    /\ NoApp
    /\ call = NoCall
    /\ cls = NoCls
    /\ part = NoPart
    /\ opened = NoOpened
    /\ \E items \in AskDocuments, history \in Histories, response \in AskResponses :
         ask = [NoAsk EXCEPT !.documents = items, !.question = Txt("question", 0),
                             !.chat_history = history, !.response = response]

NextAsk == call_ask_question

SpecAsk == InitAsk /\ [][NextAsk]_vars

(***************************************************************************)
(* Claims.                                                                 *)
(***************************************************************************)
PageNumbers(records) == {records[i].page_number : i \in DOMAIN records}

\* Every record the pipeline holds: still in a task, or merged.
Records ==
    {pages[i] : i \in DOMAIN pages}
    \cup UNION {{batch_data[b][i] : i \in DOMAIN batch_data[b]} : b \in DOMAIN batch_data}

\* C1: the record returned for a document of N pages has exactly N page
\* entries and their page numbers are exactly 1..N, whatever pages failed.
C1_OneRecordPerPage ==
    pc = "returned" =>
        /\ Len(pages) = total_pages
        /\ PageNumbers(pages) = 1..total_pages

C1_Witness ==
    /\ pc = "returned"
    /\ total_pages > batch_size
    /\ \E i \in DOMAIN pages : IsPlaceholder(pages[i])
    /\ Len(pages) = total_pages

\* C2: the returned pages are sorted strictly ascending by page_number in
\* whatever order the batch tasks completed.
C2_SortedByPageNumber ==
    pc = "returned" =>
        \A i, j \in DOMAIN pages : i < j => pages[i].page_number < pages[j].page_number

C2_Witness ==
    /\ pc = "returned"
    /\ collected = <<2, 1>>
    /\ pages[1].page_number = 1

\* C3: when the summarization request of a page fails (timeout, connection
\* error, non-success status), summarize_page does not raise, the page is
\* recorded with the sentinel text naming it as text_summary (unless a later
\* step of the same page raises), and the task goes on with the next page.
C3_SummarizeFailsSoft ==
    last.response \in TransportFailures =>
        /\ last.error # "summarize"
        /\ last.error \in {"none", "classify"} =>
               /\ last.record.text_summary = SummarizeError(last.page_number)
               /\ last.record.page_number = last.page_number
        /\ last.record \in Records
        /\ pos[last.batch] < Len(Batches[last.batch]) => status[last.batch] = "running"
        /\ pos[last.batch] = Len(Batches[last.batch]) => status[last.batch] = "done"

C3_Witness ==
    /\ last.response = "timeout"
    /\ last.record.text_summary = SummarizeError(last.page_number)
    /\ status[last.batch] = "running"
    /\ pos[last.batch] >= 1

AllTimeouts(responses, n) == \A i \in 1..n : responses[i] = "timeout"

\* C4: three consecutive timeouts of a page's summarization make the
\* Summarizer wait exactly 3 delay intervals in the ratio 1:2:4 before it
\* returns the fallback text.
C4_SummarizerBackoff ==
    (call.fn = "summarize_page" /\ AllTimeouts(call.responses, default_retries)) =>
        /\ call.out.requests = default_retries
        /\ Len(call.out.sleeps) = 3
        /\ call.out.sleeps[2] = 2 * call.out.sleeps[1]
        /\ call.out.sleeps[3] = 4 * call.out.sleeps[1]
        /\ call.out.value = SummarizeError(call.page_number)

\* The number of timeouts before the first other answer, among the first n.
RECURSIVE LeadingTimeouts(_, _)
LeadingTimeouts(responses, n) ==
    IF n = 0 \/ responses = <<>> \/ Head(responses) # "timeout" THEN 0
    ELSE 1 + LeadingTimeouts(Tail(responses), n - 1)

C6_NoImageNoDrawingIsText ==
    (cls.called /\ cls.page.images = 0 /\ ~cls.page.drawings) => cls.image_data = None

C6_Witness ==
    /\ cls.called
    /\ cls.page = Page(0, FALSE, 0, 100, FALSE)
    /\ cls.threshold = default_threshold
    /\ cls.image_data = None

\* C7: a page with zero extractable text and at least one raster image, whose
\* accessors raise nothing, is classified image-dominant for every threshold
\* greater than 0.
C7_ImageWithoutTextIsImage ==
    (/\ cls.called
     /\ cls.page.images >= 1
     /\ cls.page.text_area = 0
     /\ cls.threshold > 0
     /\ ~cls.page.broken) => cls.image_data = Base64Image

C7_Witness ==
    /\ cls.called
    /\ cls.page = Page(1, FALSE, 0, 100, FALSE)
    /\ cls.threshold = 10
    /\ cls.image_data = Base64Image

\* C8: every page record holds at most one image analysis entry, each with
\* the record's own page_number, and a page that did not fail has the entry
\* exactly when it has an image or a drawing and its text coverage is below
\* the threshold.
C8_ImageAnalysisOfThePage ==
    /\ \A record \in Records :
          /\ Len(record.image_analysis) <= 1
          /\ \A i \in DOMAIN record.image_analysis :
                record.image_analysis[i].page_number = record.page_number
    /\ (last.batch # 0 /\ last.error = "none") =>
          (last.record.image_analysis # <<>>
             <=> /\ last.page.images > 0 \/ last.page.drawings
                 /\ last.page.text_area * 100 < default_threshold * last.page.page_area)

C8_Witness ==
    /\ pc = "returned"
    /\ last.error = "none"
    /\ last.page = Page(1, FALSE, 5, 100, FALSE)
    /\ Len(last.record.image_analysis) = 1
    /\ last.record.image_analysis[1].page_number = last.page_number
    /\ last.record \in {pages[i] : i \in DOMAIN pages}

\* The pages of every task are recorded one by one, in order, and a task
\* runs until its last page.
TasksGoOn ==
    \A b \in DOMAIN Batches :
        /\ status[b] \in {"running", "done"} =>
              /\ Len(batch_data[b]) = pos[b]
              /\ \A i \in 1..pos[b] : batch_data[b][i].page_number = Batches[b][i] + 1
              /\ status[b] = "done" <=> pos[b] = Len(Batches[b])

\* C9 as stated: an exception while extracting, summarizing, classifying or
\* explaining a page makes that page a placeholder record.
C9_EveryExceptionIsPlaceholder ==
    last.error # "none" => last.record = Placeholder(last.page_number)

\* C9 as amended: an exception while extracting, summarizing or explaining a
\* page makes that page a placeholder record; an exception while classifying
\* is caught inside the classifier, and the page is recorded with its own
\* text and summary and an empty image_analysis.  Either way the failure stays
\* with that page: the task goes on, every page is recorded, and no more
\* records are placeholders than pages raised.
C9_ExceptionStaysWithThePage ==
    /\ last.error \in {"extract", "summarize", "explain"} =>
          last.record = Placeholder(last.page_number)
    /\ last.error = "classify" =>
          /\ last.record.page_number = last.page_number
          /\ last.record.full_text = PageText(last.page_number)
          /\ last.record.text_summary \in {SummaryText(last.page_number),
                                           SummarizeError(last.page_number)}
          /\ last.record.image_analysis = <<>>
    /\ last.error = "none" /\ last.batch # 0 => ~IsPlaceholder(last.record)
    /\ TasksGoOn
    /\ Cardinality({record \in Records : IsPlaceholder(record)}) <= faulty
    /\ pc = "returned" => PageNumbers(pages) = 1..total_pages

C9_Witness ==
    /\ pc = "returned"
    /\ last.error = "classify"
    /\ last.page.images = 1
    /\ last.page.text_area = 5
    /\ last.record.text_summary = SummaryText(last.page_number)
    /\ last.record.image_analysis = <<>>
    /\ last.page_number < total_pages

\* C10: when the task of a batch fails with an exception, every page of that
\* batch is still in the returned document (as a placeholder where it was
\* not recorded), and the other batches are merged.
C10_FailedBatchKeepsItsPages ==
    pc = "returned" =>
        \A b \in DOMAIN Batches :
            status[b] = "raised" =>
                /\ b \in logged
                /\ \A i \in DOMAIN Batches[b] : (Batches[b][i] + 1) \in PageNumbers(pages)

RECURSIVE Flatten(_)
Flatten(seqs) == IF seqs = <<>> THEN <<>> ELSE Head(seqs) \o Flatten(Tail(seqs))

\* C15: for every page count N >= 0 and batch size b >= 1 the indices [0, N)
\* are split into ceil(N/b) non-empty batches that, one after another, list
\* 0 .. N-1 exactly once and in order; every batch has b pages except
\* possibly the last, which has between 1 and b.
C15_BatchesPartitionThePages ==
    part.called =>
        LET N == part.total
            b == part.size
            batches == part.batches
            count == CHOOSE k \in 0..N : k * b >= N /\ (k = 0 \/ (k - 1) * b < N)
        IN /\ Len(batches) = count
           /\ Flatten(batches) = [i \in 1..N |-> i - 1]
           /\ \A j \in DOMAIN batches :
                 /\ Len(batches[j]) \in 1..b
                 /\ j < Len(batches) => Len(batches[j]) = b

C15_Witness ==
    /\ part.called
    /\ part.total = 12
    /\ part.size = 5
    /\ part.batches = <<Range(0, 5), Range(5, 10), Range(10, 12)>>

\* C18: sorting by page_number is idempotent on the merged pages: once every
\* batch is merged, sorting the pages and sorting them again gives the same
\* sequence, and the returned pages are left as they are by one more sort.
C18_SortIsIdempotent ==
    /\ (pc = "running" /\ Len(collected) = Len(Batches)) =>
          sort_by_page_number(sort_by_page_number(pages)) = sort_by_page_number(pages)
    /\ pc = "returned" => sort_by_page_number(pages) = pages

C18_Witness ==
    /\ pc = "returned"
    /\ Len(collected) = 2
    /\ collected[1] = 2
    /\ Len(pages) > batch_size
    /\ sort_by_page_number(pages) = pages

\* C19 as stated: the pages of a batch are summarized in ascending order, and
\* the previous summary passed for a page is the empty text for the first
\* page of a batch and otherwise the text_summary recorded for the page
\* before it in the same batch.
C19_ChainFollowsTheRecords ==
    /\ TasksGoOn
    /\ last.batch # 0 =>
          LET records == batch_data[last.batch]
              k == pos[last.batch]
          IN IF k = 1 THEN last.prev = EmptyText
             ELSE last.prev = records[k - 1].text_summary

\* What the chain can hold when the page at position k of a batch starts,
\* given the records of the pages before it.
RECURSIVE PassedOn(_, _)
PassedOn(records, k) ==
    IF k = 1 THEN {EmptyText}
    ELSE IF ~IsPlaceholder(records[k - 1]) THEN {records[k - 1].text_summary}
    ELSE PassedOn(records, k - 1)
         \cup {SummaryText(records[k - 1].page_number),
               SummarizeError(records[k - 1].page_number)}

\* C19 as amended: the pages of a batch are summarized in ascending order, and
\* the previous summary passed for a page is the empty text for the first
\* page of a batch and otherwise what summarize_page last returned in the
\* same batch: the text_summary recorded for the page before it unless that
\* record is a placeholder, and then that page's own summary if it was
\* summarized, else what was passed to that page.  It never comes from
\* another batch.
C19_ChainFollowsTheSummarizer ==
    /\ TasksGoOn
    /\ last.batch # 0 =>
          /\ last.prev \in PassedOn(batch_data[last.batch], pos[last.batch])
          /\ last.prev.n \in {0} \cup {Batches[last.batch][i] + 1 :
                                          i \in 1..(pos[last.batch] - 1)}
    /\ \A b \in DOMAIN Batches :
          status[b] \in {"running", "done"} =>
              previous_summary[b] \in PassedOn(batch_data[b], pos[b] + 1)

C19_Witness ==
    /\ last.batch = 2
    /\ pos[2] = 2
    /\ IsPlaceholder(batch_data[2][1])
    /\ last.prev = SummaryText(batch_size + 1)
    /\ last.record.text_summary = SummaryText(batch_size + 2)

\* C20: a step of a batch task reads only pages of the task's own index range
\* and changes only that task's own locals, never the document record under
\* construction; the pages of the record change only in the collecting loop
\* of process_pdf_pages (the merge of a finished batch and the final sort).
C20_TasksShareNothing ==
    [][/\ pages' # pages =>
             \/ \E b \in DOMAIN Batches : collected' = Append(collected, b)
             \/ pc = "running" /\ pc' = "returned"
       /\ \A b \in DOMAIN Batches :
             (pc = "running" /\ pc' = "running"
              /\ (pos'[b] # pos[b] \/ batch_data'[b] # batch_data[b]
                  \/ previous_summary'[b] # previous_summary[b])) =>
                /\ pages' = pages
                /\ collected' = collected
                /\ pdf_document' = pdf_document
                /\ last'.batch = b
                /\ last'.loaded \subseteq {Batches[b][i] : i \in DOMAIN Batches[b]}
                /\ \A c \in DOMAIN Batches \ {b} :
                      /\ pos'[c] = pos[c]
                      /\ batch_data'[c] = batch_data[c]
                      /\ previous_summary'[c] = previous_summary[c]
      ]_vars

C20_Witness ==
    /\ pc = "running"
    /\ collected = <<2>>
    /\ pages = batch_data[2]
    /\ status[1] = "running"
    /\ last.batch = 1
    /\ pos[1] = 2
    /\ last.loaded = {1}

\* The context of the call could be assembled.
Assemblable == ~combined_content(ask.documents).raised

\* C13: a failed answer request is never turned into an answer text: when the
\* request fails (timeout, connection error, non-success status, or a body
\* without a choice) ask_question raises, and it returns a text only when
\* the request succeeded, which is then the content of the answer or, when
\* the body holds none, the default text.
C13_AnswerFailureIsRaised ==
    (ask.called /\ Assemblable) =>
        /\ ask.response \in TransportFailures =>
              ask.out.raised /\ ask.out.error = "Exception"
        /\ ask.response \notin {"ok", "no_content"} => ask.out.raised
        /\ ~ask.out.raised =>
              /\ ask.response \in {"ok", "no_content"}
              /\ ask.out.value = IF ask.response = "ok" THEN AnswerText
                                 ELSE NoAnswerProvided

C13_Witness ==
    /\ ask.called
    /\ Len(ask.documents) = 2
    /\ ask.response = "timeout"
    /\ ask.out.raised
    /\ ask.out.error = "Exception"
    /\ ask.out.requests = 1

\* C14: asked with an empty collection, ask_question assembles an empty
\* content without raising, with an empty chat history an empty
\* conversation, and then returns the answer when the request succeeds; it
\* raises only when the request fails.
C14_EmptyCollectionIsAssembled ==
    (ask.called /\ ask.documents = <<>>) =>
        /\ ask.out.requests = 1
        /\ ask.out.prompt.content = <<>>
        /\ ask.out.prompt.question = ask.question
        /\ ask.chat_history = <<>> => ask.out.prompt.history = <<>>
        /\ ask.response = "ok" => ~ask.out.raised /\ ask.out.value = AnswerText
        /\ ask.out.raised => ask.response \notin {"ok", "no_content"}

C14_Witness ==
    /\ ask.called
    /\ ask.documents = <<>>
    /\ ask.chat_history = <<>>
    /\ ask.response = "ok"
    /\ ask.out.value = AnswerText
    /\ ask.out.prompt = [content |-> <<>>, history |-> <<>>, question |-> ask.question]

\* C17: the conversation of the prompt holds, for every turn of the chat
\* history and in the order of the history, the line of its question followed
\* by the line of its answer, and nothing else, however long the history is.
C17_HistoryIsSerializedInOrder ==
    (ask.called /\ Assemblable) =>
        LET lines == ask.out.prompt.history IN
        /\ Len(lines) = 2 * Len(ask.chat_history)
        /\ \A i \in DOMAIN ask.chat_history :
              /\ lines[2 * i - 1] = [speaker |-> "User", text |-> ask.chat_history[i].question]
              /\ lines[2 * i] = [speaker |-> "Assistant", text |-> ask.chat_history[i].answer]

C17_Witness ==
    /\ ask.called
    /\ Len(ask.chat_history) = 3
    /\ ask.chat_history[1] # ask.chat_history[2]
    /\ Len(ask.out.prompt.history) = 6
    /\ ask.out.prompt.history[1].text = ask.chat_history[1].question

\* Why the file cannot become a document: it cannot be converted (no MIME
\* type for its extension, or the conversion service fails), or the bytes
\* are no PDF.
OpenFailure(uploaded_file) ==
    IF uploaded_file.extension # "pdf"
       /\ (uploaded_file.extension \notin MIME_TYPES \/ uploaded_file.service # "200")
    THEN "conversion"
    ELSE IF ~uploaded_file.wellformed THEN "parse" ELSE "none"

ParseErrors == {Error("ValueError", UnableToProcess, OpenFailed)}

ConversionErrors ==
    {Error("ValueError", UnableToProcess, cause) :
        cause \in {UnsupportedFileType, ConversionFailed, ConnectionFailed}}

Processed(uploaded_file) ==
    \E i \in DOMAIN notices :
        /\ notices[i].name = FileName(uploaded_file)
        /\ notices[i].kind \in {"success", "error", "exception"}

Informed(uploaded_file) ==
    \E i \in DOMAIN notices :
        /\ notices[i].name = FileName(uploaded_file)
        /\ notices[i].kind \in {"error", "exception"}

\* C11: when the conversion or the parsing of an uploaded file fails, the
\* collection holds no entry under the name of the file afterwards, the
\* entries of the other documents are what they were, and the failure is
\* shown; also when several files are processed at the same time.
C11_FailedUploadLeavesNoEntry ==
    [][\A i \in DOMAIN uploaded_files :
          LET uploaded_file == uploaded_files[i] IN
          (OpenFailure(uploaded_file) # "none"
           /\ ~Processed(uploaded_file) /\ Processed(uploaded_file)') =>
             /\ Informed(uploaded_file)'
             /\ FileName(uploaded_file) \notin Names(documents')
             /\ \A j \in DOMAIN documents :
                   documents[j].name # FileName(uploaded_file) =>
                       \E k \in DOMAIN documents' : documents'[k] = documents[j]
      ]_vars

IsDocumentRecord(value) ==
    /\ value.type = "dict"
    /\ {"document_name", "pages"} \subseteq DOMAIN value

\* C12: once a file that can be converted and parsed has been processed by
\* the upload loop, the collection holds under its name a document record (a
\* dict with the document name and the pages) from which ask_question
\* assembles its content.
C12_StoredValueIsDocumentRecord ==
    \A i \in DOMAIN uploaded_files :
        LET uploaded_file == uploaded_files[i] IN
        (OpenFailure(uploaded_file) = "none" /\ Processed(uploaded_file)) =>
            \E j \in DOMAIN documents :
                /\ documents[j].name = FileName(uploaded_file)
                /\ IsDocumentRecord(documents[j].value)
                /\ ~combined_content(<<documents[j]>>).raised

\* The future of batch b has ended: the task returned or raised.
Finished(b) == status[b] \in {"done", "raised"}

\* C21: process_pdf_pages returns only after every submitted batch task has
\* ended: when it has returned, no task is running, every future was yielded
\* once, a task that returned went through all its pages, and the pages
\* returned are those of the tasks that returned; nothing is returned before.
C21_ReturnsAfterEveryTask ==
    /\ pc = "returned" =>
          /\ \A b \in DOMAIN Batches : Finished(b)
          /\ \A b \in DOMAIN Batches : \E i \in DOMAIN collected : collected[i] = b
          /\ \A b \in DOMAIN Batches :
                status[b] = "done" => Len(batch_data[b]) = Len(Batches[b])
          /\ \A b \in DOMAIN Batches : \A i \in DOMAIN batch_data[b] :
                status[b] = "done" =>
                    \E j \in DOMAIN pages : pages[j] = batch_data[b][i]
    /\ (\E b \in DOMAIN Batches : ~Finished(b)) => pc \in {"start", "raised", "running"}

C21_Witness ==
    /\ pc = "returned"
    /\ Len(Batches) = 2
    /\ status[1] = "raised"
    /\ status[2] = "done"
    /\ collected = <<2, 1>>
    /\ Len(pages) = Len(Batches[2])

\* C29: the document is closed only after every batch task has ended, the
\* tasks that raised included, and no task loads a page once it is closed;
\* when process_pdf_pages raises, the document is not closed at all.
C29_ClosedAfterEveryTask ==
    /\ [](closed => \A b \in DOMAIN Batches : Finished(b))
    /\ [](pc = "raised" => ~closed)
    /\ [][last' # last => ~closed /\ ~closed']_vars

C29_Witness ==
    /\ closed
    /\ Len(Batches) = 2
    /\ status[1] = "done"
    /\ status[2] = "raised"
    /\ last.batch = 1
    /\ last.page_number = batch_size

RECURSIVE PagesBefore(_, _)
PagesBefore(items, d) ==
    IF d <= 1 THEN 0 ELSE PagesBefore(items, d - 1) + Len(items[d - 1].value.pages)

\* C23: the content assembled for the answer holds one block for every page
\* of every document, document after document and the pages of a document by
\* ascending page number: the block holds the full text of the page (the
\* no-text marker when the record has none), its summary and its image
\* explanations (the no-image-analysis marker when it has none); there is no
\* other block.
C23_OneBlockPerPage ==
    (ask.called /\ Assemblable) =>
        LET items == ask.documents
            content == ask.out.prompt.content
        IN /\ Len(content) = PagesBefore(items, Len(items) + 1)
           /\ \A d \in DOMAIN items : \A i \in DOMAIN items[d].value.pages :
                 LET page == items[d].value.pages[i]
                     block == content[PagesBefore(items, d) + i]
                 IN /\ block.page_number = page.page_number
                    /\ block.full_text = IF "full_text" \in DOMAIN page
                                         THEN page.full_text ELSE NoTextAvailable
                    /\ block.summary = page.text_summary
                    /\ IF page.image_analysis = <<>>
                       THEN block.image_analysis =
                                <<[page_number |-> 0, text |-> NoImageAnalysis]>>
                       ELSE /\ Len(block.image_analysis) = Len(page.image_analysis)
                            /\ \A k \in DOMAIN page.image_analysis :
                                  /\ block.image_analysis[k].page_number =
                                         page.image_analysis[k].page_number
                                  /\ block.image_analysis[k].text =
                                         page.image_analysis[k].explanation
                    /\ \A j \in DOMAIN items[d].value.pages :
                          i < j => block.page_number <
                                       content[PagesBefore(items, d) + j].page_number

C23_Witness ==
    /\ ask.called
    /\ Len(ask.documents) = 3
    /\ Len(ask.out.prompt.content) = 4
    /\ ask.out.prompt.content[2].full_text = PageText(2)
    /\ ask.out.prompt.content[3].image_analysis[1].text = ExplanationText
    /\ ask.out.prompt.content[4].full_text = NoTextAvailable
    /\ ask.out.prompt.content[4].image_analysis[1].text = NoImageAnalysis

\* C24: every request made while a document is processed has a timeout and
\* every call a bounded number of attempts, so process_pdf_pages ends, with
\* the record or with an error, also when the service answers nothing.
C24_ProcessingEnds == <>Ended

C24_Witness ==
    /\ pc = "returned"
    /\ azure_endpoint = "down"
    /\ system_prompt.value = PersonaError
    /\ Len(Batches) = 2
    /\ \A i \in DOMAIN pages : pages[i].text_summary = SummarizeError(i)
    /\ \E i \in DOMAIN pages :
          /\ pages[i].image_analysis # <<>>
          /\ pages[i].image_analysis[1].explanation = ExplainTimeoutError(default_retries)

\* C25: get_image_explanation called with retries >= 1 issues at least one
\* and at most retries requests and sleeps once between two requests, the
\* k-th time for initial_delay * 2^(k-1); when every attempt times out it
\* issues retries requests and sleeps retries - 1 times, not after the last
\* attempt; it raises only when an answer cannot be read, never on an
\* exception of the request; it never returns the text that follows its loop.
C25_BoundedAttempts ==
    (call.fn = "get_image_explanation" /\ call.retries >= 1) =>
        /\ call.out.requests \in 1..call.retries
        /\ Len(call.out.sleeps) = call.out.requests - 1
        /\ \A k \in DOMAIN call.out.sleeps :
              call.out.sleeps[k] = call.initial_delay * Pow2(k - 1)
        /\ AllTimeouts(call.responses, call.retries) =>
              /\ call.out.requests = call.retries
              /\ Len(call.out.sleeps) = call.retries - 1
        /\ call.out.raised => call.responses[call.out.requests] = "bad_body"
        /\ call.responses[call.out.requests] \in TransportFailures => ~call.out.raised
        /\ call.out.value # ExplainMaxRetriesError

C25_Witness ==
    /\ call.fn = "get_image_explanation"
    /\ call.retries = default_retries
    /\ call.initial_delay = default_initial_delay
    /\ AllTimeouts(call.responses, default_retries)
    /\ call.out.requests = 3
    /\ call.out.sleeps = <<2, 4>>
    /\ call.out.value = ExplainTimeoutError(default_retries)

\* C26: the placeholder text of a page that raised never enters the chain of
\* a batch.  The chain is empty before the first page; a page on which
\* summarize_page returned leaves in it what summarize_page returned (the
\* summary or the sentinel naming the page), also when a later step of that
\* page raised and the page was recorded as a placeholder; a page on which
\* summarize_page returned nothing leaves the chain as it was passed to it.
C26_PlaceholderNeverChained ==
    /\ \A b \in DOMAIN Batches :
          /\ previous_summary[b] # PageError
          /\ pos[b] = 0 => previous_summary[b] = EmptyText
    /\ last.batch # 0 =>
          /\ last.prev # PageError
          /\ previous_summary[last.batch] =
                CASE last.response = "ok" -> SummaryText(last.page_number)
                  [] last.response \in TransportFailures -> SummarizeError(last.page_number)
                  [] OTHER -> last.prev

C26_Witness ==
    /\ last.batch # 0
    /\ last.response = "ok"
    /\ last.error = "explain"
    /\ IsPlaceholder(last.record)
    /\ previous_summary[last.batch] = SummaryText(last.page_number)
    /\ pos[last.batch] < Len(Batches[last.batch])

IsStoredResult(value) == value.type # "NoneType"

\* C28: over the reruns of the script, an entry stored for a file whose
\* processing returned is never changed (the file is not processed again),
\* and a file whose processing failed is among the files the next rerun
\* processes.
C28_ProcessedOnceUnlessFailed ==
    /\ [][\A j \in DOMAIN documents :
             IsStoredResult(documents[j].value) =>
                 j \in DOMAIN documents' /\ documents'[j] = documents[j]]_vars
    /\ [](\A i \in DOMAIN uploaded_files :
             LET uploaded_file == uploaded_files[i] IN
             (/\ Informed(uploaded_file)
              /\ \A j \in DOMAIN documents :
                    documents[j].name = FileName(uploaded_file) =>
                        ~IsStoredResult(documents[j].value)) =>
                 \E k \in DOMAIN new_files(uploaded_files, documents) :
                     new_files(uploaded_files, documents)[k] = uploaded_file)

\* C30: when the futures of main.py are collected, in whatever order, every
\* entry of the collection is the result of the future of the file of that
\* name, and every file that can be converted and parsed has its result
\* stored, whatever happened to the other files.
C30_ResultsStoredUnderOwnName ==
    script = "main" =>
        /\ \A j \in DOMAIN documents :
              \E i \in DOMAIN futures :
                  /\ futures[i].state = "collected"
                  /\ FileName(futures[i].file) = documents[j].name
                  /\ ~futures[i].out.raised
                  /\ documents[j].value = futures[i].out.value
        /\ \A i \in DOMAIN futures :
              (futures[i].state = "collected" /\ OpenFailure(futures[i].file) = "none") =>
                  FileName(futures[i].file) \in Names(documents)

====
